---- MODULE Spec2Model ----
(***************************************************************************)
(* Review aggregation and disambiguation engine of customer-reviews:       *)
(*   review_visualizer/app.py            (Flask dashboard)                 *)
(*   mesop_review_visualizer/data_service.py (Mesop dashboard)             *)
(*   mesop_review_visualizer/main.py     (detailed page of the dashboard)  *)
(*   bk_maps/places_client.py            (scraper of the Places API)       *)
(* A batch of review rows is loaded, every row receives its               *)
(* ui_display_name, and process_review_data aggregates the batch.          *)
(***************************************************************************)
EXTENDS Integers, Sequences, FiniteSets, TLC

VARIABLES
    raw,                          \* all_reviews_data_raw: the rows of the query
    augmented,                    \* all_reviews_data_augmented
    pc,                           \* "load", "augmented", "reordered", "processed"
    app,                          \* the dashboard that loaded the batch: "none", "flask", "mesop"
    city_names,                   \* fetch_processed_data: its other three results
    restaurants_map_data,
    error_message,
    top_pros,                     \* process_review_data: its four results
    top_cons,
    average_restaurant_ratings,
    reviews_over_time_chart_data,
    pros_counts,                  \* process_review_data: its two Counters
    cons_counts,
    request,                      \* Flask: request.args of the route that ran
    current_reviews_for_dashboard, \* Flask: the reviews the route displays and aggregates
    restaurant_names,             \* Flask: the names of the restaurant dropdown
    total_displayed_reviews,
    geo_filtered_reviews,         \* Flask: the reviews inside the bounds of the map
    selected_city,                \* Mesop: me.state of the detailed page
    selected_restaurant_name,
    all_reviews_data,
    city_names_options,
    restaurant_names_options,
    restaurants_map_data_state,
    error_message_state,
    data_fully_loaded,
    current_reviews_for_display,  \* Mesop: the reviews the detailed page displays and aggregates
    fetch_calls,                  \* Mesop: the calls of fetch_processed_data so far
    places_id,                    \* scraper: the place ids handed to get_places_details_and_reviews
    responses,                    \* scraper: what the Places API answers for each of them
    place_index,                  \* scraper: the places the loop has been through
    all_burger_king_reviews,      \* scraper: the entries collected so far
    calls                         \* scraper: the API calls and the sleeps, in the order they happen

outs == <<top_pros, top_cons, average_restaurant_ratings, reviews_over_time_chart_data>>
fetched == <<city_names, restaurants_map_data, error_message>>
counters == <<pros_counts, cons_counts>>
page == <<request, current_reviews_for_dashboard, restaurant_names, total_displayed_reviews, geo_filtered_reviews>>
session == <<selected_city, selected_restaurant_name, all_reviews_data, city_names_options,
             restaurant_names_options, restaurants_map_data_state, error_message_state,
             data_fully_loaded, current_reviews_for_display, fetch_calls>>
scraper == <<places_id, responses, place_index, all_burger_king_reviews, calls>>
vars == <<raw, augmented, pc, app, city_names, restaurants_map_data, error_message,
          top_pros, top_cons, average_restaurant_ratings, reviews_over_time_chart_data,
          pros_counts, cons_counts,
          request, current_reviews_for_dashboard, restaurant_names,
          total_displayed_reviews, geo_filtered_reviews,
          selected_city, selected_restaurant_name, all_reviews_data, city_names_options,
          restaurant_names_options, restaurants_map_data_state, error_message_state,
          data_fully_loaded, current_reviews_for_display, fetch_calls,
          places_id, responses, place_index, all_burger_king_reviews, calls>>

\* The longest batch that is loaded.
MaxReviews == 3

(***************************************************************************)
(* Python values.  A value carries its type; None is a value of its own.   *)
(***************************************************************************)
None == [tag |-> "none"]
Str(s) == [tag |-> "str", s |-> s]
Num(n) == [tag |-> "num", n |-> n]
List(items) == [tag |-> "list", items |-> items]
Datetime(y, m, d) == [tag |-> "datetime", y |-> y, m |-> m, d |-> d]

\* bool(v): None, "", 0 and [] are falsy.
Truthy(v) ==
    CASE v.tag = "none" -> FALSE
      [] v.tag = "str" -> v.s # ""
      [] v.tag = "num" -> v.n # 0
      [] v.tag = "list" -> v.items # <<>>
      [] OTHER -> TRUE

\* dict.get(key): None for a key the dict does not hold.
Get(review, key) == IF key \in DOMAIN review THEN review[key] ELSE None

\* One row of the query: dict(row).
Review(name, city, rating, pros, cons, dt, lat, lng) ==
    [display_name |-> name, city |-> city, review_rating |-> rating,
     review_pros |-> pros, review_cons |-> cons, review_datetime |-> dt,
     latitude |-> lat, longitude |-> lng]

(***************************************************************************)
(* Name disambiguation.                                                    *)
(***************************************************************************)
\* name_to_cities[name]: the cities of the rows whose display_name and city
\* are both truthy.
NameToCities(reviews, name) ==
    { Get(reviews[i], "city") : i \in
        { j \in 1..Len(reviews) :
            /\ Truthy(Get(reviews[j], "display_name"))
            /\ Truthy(Get(reviews[j], "city"))
            /\ Get(reviews[j], "display_name") = name } }

\* Variant: a name is qualified as soon as it has one city.
NamesWithACity(reviews) ==
    { Get(reviews[i], "display_name") : i \in
        { j \in 1..Len(reviews) :
            Cardinality(NameToCities(reviews, Get(reviews[j], "display_name"))) >= 1 } }

\* {name for name, cities in name_to_cities.items() if len(cities) > 1}
NamesNeedingDisambiguation(reviews) ==
    { Get(reviews[i], "display_name") : i \in
        { j \in 1..Len(reviews) :
            Cardinality(NameToCities(reviews, Get(reviews[j], "display_name"))) > 1 } }

\* Variant: the city is left out of the qualified name.
QualifiedNameWithoutCity(name, city) == Str(name.s \o " ()")

\* f"{original_display_name} ({city})"
QualifiedName(name, city) == Str(name.s \o " (" \o city.s \o ")")

\* Variant: the key replaces the display_name of the record.
WithUiNameAsDisplayName(review, ui) ==
    [f \in DOMAIN review \cup {"ui_display_name"} |->
        IF f \in {"ui_display_name", "display_name"} THEN ui ELSE review[f]]

\* r_copy = review.copy(); r_copy['ui_display_name'] = ...
WithUiName(review, ui) ==
    [f \in DOMAIN review \cup {"ui_display_name"} |->
        IF f = "ui_display_name" THEN ui ELSE review[f]]

\* str(v) as an f-string renders it.
Format(v) == IF v.tag = "str" THEN v.s ELSE IF v.tag = "none" THEN "None" ELSE "?"

\* Variant: the row's city is not tested before the name is qualified.
AugmentOneAnyCity(review, needing) ==
    LET original_display_name == Get(review, "display_name")
        city == Get(review, "city")
    IN  IF original_display_name \in needing
        THEN WithUiName(review,
                 Str(original_display_name.s \o " (" \o Format(city) \o ")"))
        ELSE WithUiName(review, original_display_name)

AugmentOne(review, needing) ==
    LET original_display_name == Get(review, "display_name")
        city == Get(review, "city")
    IN  IF original_display_name \in needing /\ Truthy(city)
        THEN WithUiName(review, QualifiedName(original_display_name, city))
        ELSE WithUiName(review, original_display_name)

\* Variant: one pass, a row is qualified by the cities seen up to that row.
augment_reviews_in_one_pass(reviews_raw_list) ==
    [i \in 1..Len(reviews_raw_list) |->
        AugmentOne(reviews_raw_list[i],
                   NamesNeedingDisambiguation(SubSeq(reviews_raw_list, 1, i)))]

augment_reviews_with_ui_name_globally(reviews_raw_list) ==
    LET needing == NamesNeedingDisambiguation(reviews_raw_list)
    IN  [i \in 1..Len(reviews_raw_list) |-> AugmentOne(reviews_raw_list[i], needing)]

\* Variant: no copy is made, the row itself receives ui_display_name.
InputAfterAugmentInPlace(reviews_raw_list) ==
    augment_reviews_with_ui_name_globally(reviews_raw_list)

\* The rows as the caller holds them once they are disambiguated:
\* ui_display_name is written to r_copy, the copy of a row, never to the row.
InputAfterAugment(reviews_raw_list) == reviews_raw_list

(***************************************************************************)
(* Python dicts keep their keys in insertion order: a dict is the sequence *)
(* of its items.                                                           *)
(***************************************************************************)
DictHas(d, key) == \E i \in 1..Len(d) : d[i].k = key
DictGet(d, key) == d[CHOOSE i \in 1..Len(d) : d[i].k = key].v
DictSet(d, key, value) ==
    IF DictHas(d, key)
    THEN [i \in 1..Len(d) |-> IF d[i].k = key THEN [k |-> key, v |-> value] ELSE d[i]]
    ELSE Append(d, [k |-> key, v |-> value])
DictKeys(d) == [i \in 1..Len(d) |-> d[i].k]

(***************************************************************************)
(* Conversions of the Python library, on the strings the batches hold.     *)
(***************************************************************************)
\* str.strip()
Strip(s) ==
    CASE s = " Nice " -> "Nice"
      [] s = "  " -> ""
      [] OTHER -> s

\* str.lower()
Lower(s) ==
    CASE s = "Nice" -> "nice"
      [] s = "Empty" -> "empty"
      [] s = "Slow" -> "slow"
      [] OTHER -> s

Raised == [ok |-> FALSE, v |-> 0]
Returned(v) == [ok |-> TRUE, v |-> v]

\* float(v): a number, or ValueError / TypeError.
Float(v) ==
    CASE v.tag = "num" -> Returned(v.n)
      [] v.tag = "str" /\ v.s = "4" -> Returned(4)
      [] v.tag = "str" /\ v.s = "0" -> Returned(0)
      [] v.tag = "str" /\ v.s = "1" -> Returned(1)
      [] v.tag = "str" /\ v.s = "2" -> Returned(2)
      [] OTHER -> Raised

\* datetime.fromisoformat(s): a datetime, or ValueError.
FromIsoFormat(s) ==
    CASE s = "2022-12-31" -> Returned(Datetime(2022, 12, 31))
      [] s = "2023-01-10" -> Returned(Datetime(2023, 1, 10))
      [] OTHER -> Raised

\* current_dt.strftime('%Y-%m'): year and month, both zero-padded to a fixed
\* width, so that the labels order as the pairs do.
MonthYear(dt) == <<dt.y, dt.m>>
LabelBefore(a, b) == a[1] < b[1] \/ (a[1] = b[1] /\ a[2] < b[2])

\* round(total / count, 2), in hundredths; a tie goes to the even hundredth.
Round2(total, count) ==
    LET q == (100 * total) \div count
        r == (100 * total) % count
    IN  IF 2 * r < count THEN q
        ELSE IF 2 * r > count THEN q + 1
        ELSE IF q % 2 = 0 THEN q ELSE q + 1

(***************************************************************************)
(* process_review_data: the loop over the reviews.                         *)
(***************************************************************************)
\* counts[token] += 1
Tally(counts, token) ==
    IF DictHas(counts, token)
    THEN DictSet(counts, token, DictGet(counts, token) + 1)
    ELSE DictSet(counts, token, 1)

RECURSIVE TallyItems(_, _)
TallyItems(counts, items) ==
    IF items = <<>> THEN counts
    ELSE TallyItems(IF Truthy(Head(items))
                    THEN Tally(counts, Lower(Strip(Head(items).s)))
                    ELSE counts,
                    Tail(items))

\* The pros (or the cons) of one review.
TallyField(counts, value) ==
    IF ~Truthy(value) THEN counts
    ELSE IF value.tag = "str" THEN Tally(counts, Lower(Strip(value.s)))
    ELSE IF value.tag = "list" THEN TallyItems(counts, value.items)
    ELSE counts

\* Variant: the count is taken before the rating is converted.
AccumulateRatingCountFirst(agg, name, rating) ==
    IF Truthy(name) /\ rating # None
    THEN LET created == IF DictHas(agg, name) THEN agg
                        ELSE DictSet(agg, name, [total_rating |-> 0, count |-> 0])
             cur == DictGet(created, name)
             f == Float(rating)
         IN  DictSet(created, name,
                     [total_rating |-> cur.total_rating + (IF f.ok THEN f.v ELSE 0),
                      count |-> cur.count + 1])
    ELSE agg

\* The sums and counts of the ratings per name, after one review: the entry
\* is made before the rating is converted, the sum and the count are changed
\* after it.
AccumulateRating(agg, name, rating) ==
    IF Truthy(name) /\ rating # None
    THEN LET created == IF DictHas(agg, name) THEN agg
                        ELSE DictSet(agg, name, [total_rating |-> 0, count |-> 0])
             cur == DictGet(created, name)
             f == Float(rating)
         IN  IF f.ok
             THEN DictSet(created, name,
                          [total_rating |-> cur.total_rating + f.v,
                           count |-> cur.count + 1])
             ELSE created
    ELSE agg

\* restaurant_ratings_agg after one review.
RatingStep(agg, review) ==
    AccumulateRating(agg, Get(review, "ui_display_name"), Get(review, "review_rating"))

\* monthly_ts_data after one review.
MonthStep(monthly, review) ==
    LET review_dt == Get(review, "review_datetime")
        review_rating == Get(review, "review_rating")
    IN  IF Truthy(review_dt) /\ review_rating # None
        THEN LET parsed == IF review_dt.tag = "str" THEN FromIsoFormat(review_dt.s)
                           ELSE IF review_dt.tag = "datetime" THEN Returned(review_dt)
                           ELSE Raised
             IN  IF ~parsed.ok THEN monthly
                 ELSE LET month_year == MonthYear(parsed.v)
                          created == IF DictHas(monthly, month_year) THEN monthly
                                     ELSE DictSet(monthly, month_year,
                                                  [count |-> 0, total_rating |-> 0])
                          cur == DictGet(created, month_year)
                          counted == DictSet(created, month_year,
                                             [count |-> cur.count + 1,
                                              total_rating |-> cur.total_rating])
                          f == Float(review_rating)
                      IN  IF f.ok
                          THEN DictSet(counted, month_year,
                                       [count |-> cur.count + 1,
                                        total_rating |-> cur.total_rating + f.v])
                          ELSE counted
        ELSE monthly

\* Variant: the Counters of the pros and of the cons start with a placeholder.
PlaceholderCounts == [pros_counts |-> <<[k |-> "n/a", v |-> 1]>>,
                      cons_counts |-> <<[k |-> "n/a", v |-> 1]>>,
                      restaurant_ratings_agg |-> <<>>, monthly_ts_data |-> <<>>]

NoCounts == [pros_counts |-> <<>>, cons_counts |-> <<>>,
             restaurant_ratings_agg |-> <<>>, monthly_ts_data |-> <<>>]

RECURSIVE Aggregate(_, _)
Aggregate(acc, reviews_list) ==
    IF reviews_list = <<>> THEN acc
    ELSE LET review == Head(reviews_list)
         IN  Aggregate(
                 [pros_counts |-> TallyField(acc.pros_counts, Get(review, "review_pros")),
                  cons_counts |-> TallyField(acc.cons_counts, Get(review, "review_cons")),
                  restaurant_ratings_agg |-> RatingStep(acc.restaurant_ratings_agg, review),
                  monthly_ts_data |-> MonthStep(acc.monthly_ts_data, review)],
                 Tail(reviews_list))

(***************************************************************************)
(* process_review_data: the outputs.                                       *)
(***************************************************************************)
\* {name_key: round(total_rating / count, 2) if count > 0 else 0}
AverageRatings(agg) ==
    [i \in 1..Len(agg) |->
        [k |-> agg[i].k,
         v |-> IF agg[i].v.count > 0 THEN Round2(agg[i].v.total_rating, agg[i].v.count)
               ELSE 0]]

\* Variant: an item goes before the items of the same count.
RECURSIVE InsertBeforeTies(_, _)
InsertBeforeTies(sorted, item) ==
    IF sorted = <<>> THEN <<item>>
    ELSE IF Head(sorted).v > item.v THEN <<Head(sorted)>> \o InsertBeforeTies(Tail(sorted), item)
    ELSE <<item>> \o sorted

\* The position an item takes in a list that is ordered by count, largest
\* first, and keeps items of equal count in their order.
RECURSIVE InsertByCount(_, _)
InsertByCount(sorted, item) ==
    IF sorted = <<>> THEN <<item>>
    ELSE IF Head(sorted).v >= item.v THEN <<Head(sorted)>> \o InsertByCount(Tail(sorted), item)
    ELSE <<item>> \o sorted

RECURSIVE ByCount(_)
ByCount(counts) ==
    IF counts = <<>> THEN <<>>
    ELSE InsertByCount(ByCount(SubSeq(counts, 1, Len(counts) - 1)), counts[Len(counts)])

\* Counter.most_common(n)
MostCommon(counts, n) ==
    LET all == ByCount(counts)
    IN  SubSeq(all, 1, IF Len(all) < n THEN Len(all) ELSE n)

TopN == 10

\* review_visualizer/app.py: v > 0 and k is not None and len(k) > 0 and k != ""
AppKeeps(item) == item.v > 0 /\ Len(item.k) > 0 /\ item.k # ""
AppTopTokens(counts) ==
    IF counts = <<>> THEN <<>> ELSE SelectSeq(MostCommon(counts, TopN), AppKeeps)

\* data_service.py: v > 0 and k and k.strip() and k.lower() != "empty"
DataServiceKeeps(item) ==
    item.v > 0 /\ item.k # "" /\ Strip(item.k) # "" /\ Lower(item.k) # "empty"
DataServiceTopTokens(counts) ==
    IF counts = <<>> THEN <<>> ELSE SelectSeq(MostCommon(counts, TopN), DataServiceKeeps)

\* Variant: the months in the order in which the batch produced them.
Unsorted(keys) == keys

RECURSIVE InsertLabel(_, _)
InsertLabel(sorted, label) ==
    IF sorted = <<>> THEN <<label>>
    ELSE IF LabelBefore(label, Head(sorted)) THEN <<label>> \o sorted
    ELSE <<Head(sorted)>> \o InsertLabel(Tail(sorted), label)

RECURSIVE SortLabels(_)
SortLabels(keys) ==
    IF keys = <<>> THEN <<>>
    ELSE InsertLabel(SortLabels(Tail(keys)), Head(keys))

\* sorted(monthly_ts_data.keys())
Sorted(keys) == SortLabels(keys)

\* The empty dict {}.
EmptyDict == <<>>

\* reviews_over_time_chart_data
ChartData(monthly) ==
    IF monthly = <<>> THEN EmptyDict
    ELSE LET sorted_months == Sorted(DictKeys(monthly))
         IN  [labels |-> sorted_months,
              review_counts |->
                  [i \in 1..Len(sorted_months) |-> DictGet(monthly, sorted_months[i]).count],
              average_ratings |->
                  [i \in 1..Len(sorted_months) |->
                      LET data == DictGet(monthly, sorted_months[i])
                      IN  IF data.count > 0 THEN Round2(data.total_rating, data.count)
                          ELSE 0]]

\* review_visualizer/app.py
app_process_review_data(reviews_list) ==
    LET acc == Aggregate(NoCounts, reviews_list)
    IN  [top_pros |-> AppTopTokens(acc.pros_counts),
         top_cons |-> AppTopTokens(acc.cons_counts),
         average_restaurant_ratings |-> AverageRatings(acc.restaurant_ratings_agg),
         reviews_over_time_chart_data |-> ChartData(acc.monthly_ts_data)]

\* mesop_review_visualizer/data_service.py
data_service_process_review_data(reviews_list) ==
    LET acc == Aggregate(NoCounts, reviews_list)
    IN  [top_pros |-> DataServiceTopTokens(acc.pros_counts),
         top_cons |-> DataServiceTopTokens(acc.cons_counts),
         average_restaurant_ratings |-> AverageRatings(acc.restaurant_ratings_agg),
         reviews_over_time_chart_data |-> ChartData(acc.monthly_ts_data)]

(***************************************************************************)
(* fetch_processed_data of the Mesop data service.                         *)
(***************************************************************************)
\* The message of a query that raised.
FetchError == Str("An error occurred while fetching data from BigQuery")

\* The strings that are sorted, in the order of Python's str comparison.
StrOrder == <<"A", "A (X)", "A (X) (X)", "A (X) (Y)", "A (Y)", "B", "X", "Y">>

\* sorted(list(set(...))) of strings
SortedStrings(S) == SelectSeq(StrOrder, LAMBDA s : s \in S)

\* The disambiguation that fetch_processed_data does in place.
FetchAugmented(all_reviews_data_raw) ==
    LET names_needing_disambiguation == NamesNeedingDisambiguation(all_reviews_data_raw)
    IN  [i \in 1..Len(all_reviews_data_raw) |->
            AugmentOne(all_reviews_data_raw[i], names_needing_disambiguation)]

CityNames(reviews) ==
    SortedStrings({ Get(reviews[i], "city").s :
                      i \in { j \in 1..Len(reviews) : Truthy(Get(reviews[j], "city")) } })

\* Variant: a name without a pair that converts is put on the map at (0, 0).
CoordStepWithDefault(unique, review) ==
    LET original_name == Get(review, "display_name")
        lat == Get(review, "latitude")
        lng == Get(review, "longitude")
    IN  IF Truthy(original_name) /\ ~DictHas(unique, original_name)
        THEN IF lat # None /\ lng # None /\ Float(lat).ok /\ Float(lng).ok
             THEN DictSet(unique, original_name, [lat |-> Float(lat).v, lng |-> Float(lng).v])
             ELSE DictSet(unique, original_name, [lat |-> 0, lng |-> 0])
        ELSE unique

\* Variant: only a review with a rating that converts puts its name on the map.
CoordStepOfRated(unique, review) ==
    LET original_name == Get(review, "display_name")
        lat == Get(review, "latitude")
        lng == Get(review, "longitude")
        rating == Get(review, "review_rating")
    IN  IF Truthy(original_name) /\ ~DictHas(unique, original_name)
           /\ lat # None /\ lng # None /\ rating # None
        THEN IF Float(lat).ok /\ Float(lng).ok /\ Float(rating).ok
             THEN DictSet(unique, original_name, [lat |-> Float(lat).v, lng |-> Float(lng).v])
             ELSE unique
        ELSE unique

\* unique_restaurants_for_map after one review: the first pair of a name that
\* converts is kept.
CoordStep(unique, review) ==
    LET original_name == Get(review, "display_name")
        lat == Get(review, "latitude")
        lng == Get(review, "longitude")
    IN  IF Truthy(original_name) /\ ~DictHas(unique, original_name)
           /\ lat # None /\ lng # None
        THEN IF Float(lat).ok /\ Float(lng).ok
             THEN DictSet(unique, original_name, [lat |-> Float(lat).v, lng |-> Float(lng).v])
             ELSE unique
        ELSE unique

\* Variant: the ratings of the map are summed per ui_display_name.
MapRatingStepByUiName(agg, review) ==
    AccumulateRating(agg, Get(review, "ui_display_name"), Get(review, "review_rating"))

\* restaurant_aggregates_for_map after one review.
MapRatingStep(agg, review) ==
    AccumulateRating(agg, Get(review, "display_name"), Get(review, "review_rating"))

RECURSIVE MapScan(_, _)
MapScan(acc, reviews) ==
    IF reviews = <<>> THEN acc
    ELSE MapScan([unique_restaurants_for_map |->
                      CoordStep(acc.unique_restaurants_for_map, Head(reviews)),
                  restaurant_aggregates_for_map |->
                      MapRatingStep(acc.restaurant_aggregates_for_map, Head(reviews))],
                 Tail(reviews))

\* The map markers of a batch.
MapData(reviews) ==
    LET acc == MapScan([unique_restaurants_for_map |-> <<>>,
                        restaurant_aggregates_for_map |-> <<>>], reviews)
        unique == acc.unique_restaurants_for_map
        aggregates == acc.restaurant_aggregates_for_map
        average_ratings_for_map == AverageRatings(aggregates)
    IN  [i \in 1..Len(unique) |->
            [name |-> unique[i].k,
             lat |-> unique[i].v.lat,
             lng |-> unique[i].v.lng,
             avg_rating |-> IF DictHas(average_ratings_for_map, unique[i].k)
                            THEN DictGet(average_ratings_for_map, unique[i].k) ELSE 0,
             review_count |-> IF DictHas(aggregates, unique[i].k)
                              THEN DictGet(aggregates, unique[i].k).count ELSE 0]]

\* What fetch_processed_data returns for the rows of the query.
fetch_processed_data(all_reviews_data_raw) ==
    LET all_reviews_data_augmented == FetchAugmented(all_reviews_data_raw)
    IN  [all_reviews_data_augmented |-> all_reviews_data_augmented,
         city_names |-> CityNames(all_reviews_data_augmented),
         restaurants_map_data |-> MapData(all_reviews_data_augmented),
         error_message |-> None]

(***************************************************************************)
(* The routes of the Flask dashboard.                                      *)
(***************************************************************************)
\* -90 <= lat_float <= 90 and -180 <= lng_float <= 180
InRange(lat_float, lng_float) ==
    -90 <= lat_float /\ lat_float <= 90 /\ -180 <= lng_float /\ lng_float <= 180

\* unique_restaurants_info_map after one review: every pair of a name that
\* converts and is in range is stored under the name.
IndexCoordStep(unique, review) ==
    LET original_name == Get(review, "display_name")
        lat == Get(review, "latitude")
        lng == Get(review, "longitude")
    IN  IF Truthy(original_name) /\ lat # None /\ lng # None
        THEN IF Float(lat).ok /\ Float(lng).ok
             THEN IF InRange(Float(lat).v, Float(lng).v)
                  THEN DictSet(unique, original_name,
                               [lat |-> Float(lat).v, lng |-> Float(lng).v])
                  ELSE unique
             ELSE unique
        ELSE unique

\* all_restaurant_aggregates_map after one review.
IndexRatingStep(agg, review) ==
    AccumulateRating(agg, Get(review, "display_name"), Get(review, "review_rating"))

RECURSIVE IndexScan(_, _)
IndexScan(acc, all_reviews) ==
    IF all_reviews = <<>> THEN acc
    ELSE IndexScan([unique_restaurants_info_map |->
                        IndexCoordStep(acc.unique_restaurants_info_map, Head(all_reviews)),
                    all_restaurant_aggregates_map |->
                        IndexRatingStep(acc.all_restaurant_aggregates_map, Head(all_reviews))],
                   Tail(all_reviews))

\* The map markers of the index route.
IndexMapData(all_reviews) ==
    LET acc == IndexScan([unique_restaurants_info_map |-> <<>>,
                          all_restaurant_aggregates_map |-> <<>>], all_reviews)
        unique == acc.unique_restaurants_info_map
        aggregates == acc.all_restaurant_aggregates_map
        all_average_ratings_map == AverageRatings(aggregates)
    IN  [i \in 1..Len(unique) |->
            [name |-> unique[i].k,
             lat |-> unique[i].v.lat,
             lng |-> unique[i].v.lng,
             avg_rating |-> IF DictHas(all_average_ratings_map, unique[i].k)
                            THEN DictGet(all_average_ratings_map, unique[i].k) ELSE 0,
             review_count |-> IF DictHas(aggregates, unique[i].k)
                              THEN DictGet(aggregates, unique[i].k).count ELSE 0]]

\* sorted(list(set(r['ui_display_name'] for r in ... if r.get('ui_display_name'))))
UiDisplayNames(some_reviews) ==
    SortedStrings({ Get(some_reviews[i], "ui_display_name").s :
                      i \in { j \in 1..Len(some_reviews) :
                                Truthy(Get(some_reviews[j], "ui_display_name")) } })

\* [r for r in ... if r.get('city') == selected_city]
OfCity(some_reviews, city) ==
    SelectSeq(some_reviews, LAMBDA r : Get(r, "city") = city)

\* [r for r in ... if r.get('ui_display_name') == selected_restaurant_name]
OfRestaurant(some_reviews, name) ==
    SelectSeq(some_reviews, LAMBDA r : Get(r, "ui_display_name") = name)

\* The template context of the index route.  The two filters of the
\* dashboard are commented out: the dashboard shows every review.
index(args, all_reviews_data_augmented) ==
    LET current_reviews == all_reviews_data_augmented
        result == app_process_review_data(current_reviews)
    IN  [error_message |-> IF all_reviews_data_augmented = <<>>
                           THEN Str("Failed to load review data.") ELSE None,
         city_names |-> IF all_reviews_data_augmented = <<>> THEN <<>>
                        ELSE CityNames(all_reviews_data_augmented),
         restaurants_map_data |-> IndexMapData(all_reviews_data_augmented),
         reviews |-> current_reviews,
         restaurant_names |-> IF Truthy(args.selected_city)
                              THEN UiDisplayNames(current_reviews)
                              ELSE UiDisplayNames(all_reviews_data_augmented),
         top_pros |-> result.top_pros,
         top_cons |-> result.top_cons,
         average_restaurant_ratings |-> result.average_restaurant_ratings,
         reviews_over_time_chart_data |-> result.reviews_over_time_chart_data,
         total_displayed_reviews |-> Len(current_reviews)]

\* Variant: a review on the edge of the bounds is outside.
InBoundsExclusive(review, sw_lat, sw_lng, ne_lat, ne_lng) ==
    LET lat == Get(review, "latitude")
        lng == Get(review, "longitude")
    IN  /\ lat # None /\ lng # None
        /\ Float(lat).ok /\ Float(lng).ok
        /\ sw_lat < Float(lat).v /\ Float(lat).v < ne_lat
        /\ sw_lng < Float(lng).v /\ Float(lng).v < ne_lng

\* sw_lat <= review_lat <= ne_lat and sw_lng <= review_lng <= ne_lng, of a
\* review whose latitude and longitude are not None and convert.
InBounds(review, sw_lat, sw_lng, ne_lat, ne_lng) ==
    LET lat == Get(review, "latitude")
        lng == Get(review, "longitude")
    IN  /\ lat # None /\ lng # None
        /\ Float(lat).ok /\ Float(lng).ok
        /\ sw_lat <= Float(lat).v /\ Float(lat).v <= ne_lat
        /\ sw_lng <= Float(lng).v /\ Float(lng).v <= ne_lng

\* Variant: the reviews inside the bounds are disambiguated among themselves.
GeoFilterThenAugment(all_reviews, sw_lat, sw_lng, ne_lat, ne_lng) ==
    augment_reviews_with_ui_name_globally(
        SelectSeq(all_reviews, LAMBDA r : InBounds(r, sw_lat, sw_lng, ne_lat, ne_lng)))

\* geo_filtered_reviews
GeoFilter(all_reviews, sw_lat, sw_lng, ne_lat, ne_lng) ==
    SelectSeq(all_reviews, LAMBDA r : InBounds(r, sw_lat, sw_lng, ne_lat, ne_lng))

\* The four bounds of a request convert.
BoundsConvert(args) ==
    Float(args.ne_lat).ok /\ Float(args.ne_lng).ok /\ Float(args.sw_lat).ok /\ Float(args.sw_lng).ok

MissingBounds == Str("Missing or invalid geographic bounds")
NoReviewData == Str("Failed to load review data for map bounds processing")

\* The JSON of update_dashboard_by_map_bounds for bounds that convert and a
\* dataset that holds reviews.
update_dashboard_by_map_bounds(args, all_reviews_data_augmented) ==
    LET geo_filtered == GeoFilter(all_reviews_data_augmented,
                                  Float(args.sw_lat).v, Float(args.sw_lng).v,
                                  Float(args.ne_lat).v, Float(args.ne_lng).v)
        reviews_for_restaurant_dropdown ==
            IF Truthy(args.selected_city) THEN OfCity(geo_filtered, args.selected_city)
            ELSE geo_filtered
        of_city == IF Truthy(args.selected_city) THEN OfCity(geo_filtered, args.selected_city)
                   ELSE geo_filtered
        final_filtered_reviews ==
            IF Truthy(args.selected_restaurant_name)
            THEN OfRestaurant(of_city, args.selected_restaurant_name)
            ELSE of_city
        result == app_process_review_data(final_filtered_reviews)
    IN  [all_reviews_data_augmented |-> all_reviews_data_augmented,
         geo_filtered_reviews |-> geo_filtered,
         final_filtered_reviews |-> final_filtered_reviews,
         top_pros |-> result.top_pros,
         top_cons |-> result.top_cons,
         average_restaurant_ratings |-> result.average_restaurant_ratings,
         reviews_over_time_chart_data |-> result.reviews_over_time_chart_data,
         total_displayed_reviews |-> Len(final_filtered_reviews),
         restaurant_names_for_dropdown |-> UiDisplayNames(reviews_for_restaurant_dropdown),
         city_names_for_dropdown |-> CityNames(geo_filtered)]

(***************************************************************************)
(* The detailed page of the Mesop dashboard.                               *)
(***************************************************************************)
AllCities == "All Cities"
AllRestaurants == "All Restaurants"

\* [me.SelectOption(label=r, value=r) for r in ...]
SelectOptions(values) == [i \in 1..Len(values) |-> [label |-> values[i], value |-> values[i]]]

\* The values a select offers.
OptionValues(options) == { options[i].value : i \in 1..Len(options) }

\* unique_restaurants of on_select_city_change: the names of the loaded
\* reviews, of the reviews of the city unless every city is selected.
UniqueRestaurants(value, loaded) ==
    IF value = AllCities
    THEN IF loaded # <<>> THEN UiDisplayNames(loaded) ELSE <<>>
    ELSE IF loaded # <<>> THEN UiDisplayNames(OfCity(loaded, Str(value))) ELSE <<>>

\* Variant: the restaurant that was selected stays selected.
CityChangeKeepsRestaurant(value, loaded) ==
    [selected_city |-> value,
     restaurant_names_options |->
         SelectOptions(<<AllRestaurants>> \o UniqueRestaurants(value, loaded)),
     selected_restaurant_name |-> selected_restaurant_name]

\* What on_select_city_change leaves in me.state.
on_select_city_change(value, loaded) ==
    [selected_city |-> value,
     restaurant_names_options |->
         SelectOptions(<<AllRestaurants>> \o UniqueRestaurants(value, loaded)),
     selected_restaurant_name |-> AllRestaurants]

\* Variant: the page filters by the city only.
ReviewsOfCityForDisplay(loaded, city, restaurant) ==
    IF loaded # <<>>
    THEN IF city # AllCities THEN OfCity(loaded, Str(city)) ELSE loaded
    ELSE <<>>

\* current_reviews_for_display of detailed_filter_page.
ReviewsForDisplay(loaded, city, restaurant) ==
    IF loaded # <<>>
    THEN LET of_city == IF city # AllCities THEN OfCity(loaded, Str(city)) ELSE loaded
         IN  IF restaurant # AllRestaurants
             THEN OfRestaurant(of_city, Str(restaurant)) ELSE of_city
    ELSE <<>>

\* What fetch_processed_data returns when the query raises.
FetchFailed ==
    [all_reviews_data_augmented |-> <<>>, city_names |-> <<>>,
     restaurants_map_data |-> <<>>, error_message |-> FetchError]

\* me.state after the block of detailed_filter_page that loads the data.
LoadedState(result) ==
    [all_reviews_data |-> result.all_reviews_data_augmented,
     restaurants_map_data_state |-> result.restaurants_map_data,
     error_message_state |-> result.error_message,
     city_names_options |->
         SelectOptions(<<AllCities>> \o SortedStrings({ result.city_names[i] :
                                                          i \in 1..Len(result.city_names) })),
     restaurant_names_options |->
         SelectOptions(<<AllRestaurants>> \o
                       (IF result.all_reviews_data_augmented # <<>>
                        THEN UiDisplayNames(result.all_reviews_data_augmented) ELSE <<>>)),
     data_fully_loaded |-> TRUE]

\* Variant: a page whose fetch failed fetches again.
FetchesAfterError(loaded) == ~loaded \/ error_message_state # None

\* Whether detailed_filter_page calls fetch_processed_data.
Fetches(loaded) == ~loaded

(***************************************************************************)
(* The scraper: PlacesClient of bk_maps/places_client.py.                  *)
(***************************************************************************)
\* The delay between two calls of the Places API, in hundredths of a second.
SLEEP_DURATION == 5

\* The result of a place: a dict of these keys, None standing for a key
\* that the dict does not hold.
Details(name, rating, user_ratings_total, website, place_reviews) ==
    [name |-> name, rating |-> rating, user_ratings_total |-> user_ratings_total,
     website |-> website, reviews |-> place_reviews]

\* {}
NoDetails == Details(None, None, None, None, None)

\* dict.get(key, default)
GetOr(d, key, default) == IF d[key] = None THEN default ELSE d[key]

\* What get_place_details_and_reviews answers for a response of the API: the
\* result of a body with status OK, None for another status, for a request
\* that failed and for a body that is no JSON; a body without status raises.
get_place_details_and_reviews(response) ==
    IF response.raises \in {"RequestException", "JSONDecodeError"} THEN Returned(None)
    ELSE IF response.json.status = None THEN Raised
    ELSE IF response.json.status = Str("OK")
         THEN Returned(GetOr(response.json, "result", NoDetails))
         ELSE Returned(None)

\* The entry of a place whose details hold reviews.
PlaceEntry(place_id, details) ==
    [place_id |-> place_id,
     overall_rating |-> GetOr(details, "rating", Str("N/A")),
     total_ratings |-> GetOr(details, "user_ratings_total", Str("N/A")),
     website |-> GetOr(details, "website", Str("N/A")),
     reviews |-> GetOr(details, "reviews", List(<<>>))]

\* if details: ... if reviews:
HasReviews(details) ==
    /\ details # None
    /\ details # NoDetails
    /\ Truthy(GetOr(details, "reviews", List(<<>>)))

\* Variant: every place whose details were fetched gets an entry.
CollectedWithoutReviews(collected, place_id, fetched_details) ==
    IF fetched_details.ok /\ fetched_details.v # None /\ fetched_details.v # NoDetails
    THEN Append(collected, PlaceEntry(place_id, fetched_details.v))
    ELSE collected

\* all_burger_king_reviews after the place: a call that raised and details
\* without reviews add nothing.
Collected(collected, place_id, fetched_details) ==
    IF fetched_details.ok /\ HasReviews(fetched_details.v)
    THEN Append(collected, PlaceEntry(place_id, fetched_details.v))
    ELSE collected

\* What the loop does after the call for place i of n: it sleeps unless the
\* place was the last one; a call that raised goes to the except clause, which
\* continues with the next place at once.
AfterCall(fetched_details, i, n) ==
    IF fetched_details.ok /\ i < n
    THEN <<[call |-> "sleep", seconds |-> SLEEP_DURATION]>>
    ELSE <<>>

(***************************************************************************)
(* The batches that are loaded.                                            *)
(***************************************************************************)
Names == {None, Str(""), Str("A"), Str("A (X)")}
Cities == {None, Str(""), Str("X"), Str("Y")}

\* Rows that differ in name and city.
NameReviews ==
    { Review(nc[1], nc[2], Num(5), None, None, None, None, None) :
        nc \in ({Str("A")} \X Cities)
               \cup ({Str("A (X)"), Str("")} \X {Str("X"), Str("Y")})
               \cup ({None} \X {Str("X")}) }

Ratings == {None, Num(5), Num(2), Str("4"), Str("bad")}

\* Rows that differ in display key and rating.
RatingReviews ==
    { Review(nc[1], nc[2], r, None, None, None, None, None) :
        nc \in {<<Str("A"), Str("X")>>, <<Str("A"), Str("Y")>>}, r \in Ratings }
    \cup { Review(None, Str("X"), Num(5), None, None, None, None, None) }

Timestamps == {Datetime(2023, 2, 10), Str("2022-12-31")}

\* Rows that differ in timestamp and rating.
TimeReviews ==
    { Review(Str("A"), Str("X"), r, None, None, dt, None, None) :
        r \in {None, Num(5), Num(2), Str("bad")}, dt \in Timestamps }
    \cup { Review(Str("A"), Str("X"), Num(5), None, None, dt, None, None) :
             dt \in {None, Str("2023-01-10"), Str("garbage"), Num(20230110)} }

Tokens == {None, Num(7), Str("Empty"), Str("  "), Str(" Nice "),
           List(<<Str("nice"), None, Str(""), Str("Slow")>>),
           List(<<Str("t01"), Str("t02"), Str("t03"), Str("t04"), Str("t05"), Str("t06")>>),
           List(<<Str("t07"), Str("t08"), Str("t09"), Str("t10"), Str("t11")>>)}

\* Rows that differ in their pros or in their cons.
TokenReviews ==
    { Review(Str("A"), Str("X"), Num(5), t, None, None, None, None) : t \in Tokens }
    \cup { Review(Str("A"), Str("X"), Num(5), None, t, None, None, None) :
             t \in {Str("Empty"), Str("  "), List(<<Str("nice"), None, Str(""), Str("Slow")>>)} }

\* Rows that differ in name, city, rating and coordinates.
MapReviews ==
    { Review(Str("A"), Str("X"), Num(5), None, None, None, Num(1), Num(1)),
      Review(Str("A"), Str("Y"), Num(2), None, None, None, Num(2), Num(2)),
      Review(Str("A"), Str("X"), Str("bad"), None, None, None, None, Num(1)),
      Review(Str("A"), Str("Y"), None, None, None, None, Str("bad"), Num(2)),
      Review(Str("A"), Str("X"), Str("4"), None, None, None, Num(91), Num(0)),
      Review(Str("B"), Str("X"), Num(5), None, None, None, None, None),
      Review(Str("B"), Str("X"), Num(2), None, None, None, Num(0), Num(0)),
      Review(None, Str("X"), Num(5), None, None, None, Num(1), Num(1)),
      Review(Str("B"), Str("X"), None, None, None, None, Num(1), Num(1)),
      Review(Str("B"), Str("X"), Str("bad"), None, None, None, Num(2), Num(2)) }

\* Rows that differ in name, city and rating: the table behind the detailed page.
PageReviews ==
    { Review(Str("A"), Str("X"), Num(5), None, None, None, None, None),
      Review(Str("A"), Str("Y"), Num(2), None, None, None, None, None),
      Review(Str("B"), Str("X"), None, None, None, None, None, None),
      Review(Str("B"), Str("X"), Str("bad"), None, None, None, None, None),
      Review(None, Str("Y"), Num(5), None, None, None, None, None) }

\* The places that are scraped.
MaxPlaces == 3
PlaceIds == {"p1", "p2"}

\* What the Places API answers for a place: details with reviews, with
\* reviews and no rating, without reviews, a body without result, another
\* status, a request that fails, a body that is no JSON, a body without status.
PlaceResponses ==
    { [raises |-> "none", json |-> [status |-> Str("OK"), result |-> details]] :
        details \in { Details(Str("BK"), Num(4), None, None, List(<<Str("r1")>>)),
                      Details(None, None, None, None, List(<<Str("r2")>>)),
                      Details(Str("BK"), Num(4), None, None, None),
                      None } }
    \cup { [raises |-> "none", json |-> [status |-> status, result |-> None]] :
             status \in {Str("NOT_FOUND"), None} }
    \cup { [raises |-> e, json |-> [status |-> None, result |-> None]] :
             e \in {"RequestException", "JSONDecodeError"} }

\* request.args of a request without parameters.
NoRequest == [selected_city |-> Str(""), selected_restaurant_name |-> Str(""),
              sw_lat |-> None, sw_lng |-> None, ne_lat |-> None, ne_lng |-> None]

\* request.args of the index route.
IndexRequests ==
    { [NoRequest EXCEPT !.selected_city = c, !.selected_restaurant_name = n] :
        c \in {Str(""), Str("X")}, n \in {Str(""), Str("A (X)")} }

\* request.args of update_dashboard_by_map_bounds: bounds that convert, a
\* bound that is missing, a bound that is no number.
BoundsRequests ==
    { [selected_city |-> s[1], selected_restaurant_name |-> s[2],
       sw_lat |-> b[1], sw_lng |-> b[2], ne_lat |-> b[3], ne_lng |-> b[4]] :
        s \in {<<Str(""), Str("")>>, <<Str("X"), Str("A (X)")>>},
        b \in {<<Str("0"), Str("0"), Str("1"), Str("1")>>,
               <<Str("1"), Str("1"), Str("2"), Str("2")>>} }
    \cup { [NoRequest EXCEPT !.sw_lat = Str("0"), !.sw_lng = Str("0"), !.ne_lat = b] :
             b \in {None, Str("north")} }

Init ==
    /\ raw = <<>>
    /\ augmented = <<>>
    /\ pc = "load"
    /\ app = "none"
    /\ city_names = <<>>
    /\ restaurants_map_data = <<>>
    /\ error_message = None
    /\ top_pros = <<>>
    /\ top_cons = <<>>
    /\ average_restaurant_ratings = <<>>
    /\ reviews_over_time_chart_data = <<>>
    /\ pros_counts = <<>>
    /\ cons_counts = <<>>
    /\ request = NoRequest
    /\ current_reviews_for_dashboard = <<>>
    /\ restaurant_names = <<>>
    /\ total_displayed_reviews = 0
    /\ geo_filtered_reviews = <<>>
    /\ selected_city = AllCities
    /\ selected_restaurant_name = AllRestaurants
    /\ all_reviews_data = <<>>
    /\ city_names_options = <<>>
    /\ restaurant_names_options = <<>>
    /\ restaurants_map_data_state = <<>>
    /\ error_message_state = None
    /\ data_fully_loaded = FALSE
    /\ current_reviews_for_display = <<>>
    /\ fetch_calls = 0
    /\ places_id = <<>>
    /\ responses = <<>>
    /\ place_index = 0
    /\ all_burger_king_reviews = <<>>
    /\ calls = <<>>

\* One more row of the query result.
Load(universe) ==
    /\ pc = "load"
    /\ Len(raw) < MaxReviews
    /\ \E r \in universe : raw' = Append(raw, r)
    /\ UNCHANGED <<augmented, pc, app, fetched, outs, counters, page, session, scraper>>

\* Flask: get_and_augment_all_reviews.  The rows of the query are
\* disambiguated; a query that raises leaves the dashboard with no review.
GetAndAugmentAllReviews ==
    /\ pc = "load"
    /\ \/ /\ augmented' = augment_reviews_with_ui_name_globally(raw)
          /\ raw' = InputAfterAugment(raw)
       \/ /\ raw = <<>>
          /\ augmented' = <<>>
          /\ raw' = raw
    /\ pc' = "augmented"
    /\ app' = "flask"
    /\ UNCHANGED <<fetched, outs, counters, page, session, scraper>>

\* Mesop: fetch_processed_data.  The rows of the query are disambiguated and
\* the cities and the map markers are derived from them; a query that raises
\* returns empty lists and the error message.
FetchProcessedData ==
    /\ pc = "load"
    /\ \/ LET result == fetch_processed_data(raw)
          IN  /\ raw' = InputAfterAugment(raw)
              /\ augmented' = result.all_reviews_data_augmented
              /\ city_names' = result.city_names
              /\ restaurants_map_data' = result.restaurants_map_data
              /\ error_message' = result.error_message
       \/ /\ raw = <<>>
          /\ raw' = raw
          /\ augmented' = <<>>
          /\ city_names' = <<>>
          /\ restaurants_map_data' = <<>>
          /\ error_message' = FetchError
    /\ pc' = "augmented"
    /\ app' = "mesop"
    /\ UNCHANGED <<outs, counters, page, session, scraper>>

Swap(s, i, j) ==
    [k \in 1..Len(s) |-> IF k = i THEN s[j] ELSE IF k = j THEN s[i] ELSE s[k]]

\* The same rows in another order: two neighbouring rows change places and
\* the batch is disambiguated again.
Reorder ==
    /\ pc \in {"augmented", "reordered"}
    /\ \E i, j \in 1..Len(raw) :
        /\ j = i + 1
        /\ raw' = Swap(raw, i, j)
        /\ IF app = "flask"
           THEN /\ augmented' = augment_reviews_with_ui_name_globally(raw')
                /\ UNCHANGED fetched
           ELSE LET result == fetch_processed_data(raw')
                IN  /\ augmented' = result.all_reviews_data_augmented
                    /\ city_names' = result.city_names
                    /\ restaurants_map_data' = result.restaurants_map_data
                    /\ error_message' = result.error_message
    /\ pc' = "reordered"
    /\ UNCHANGED <<app, outs, counters, page, session, scraper>>

\* Flask: process_review_data on the reviews of the dashboard.
AppProcessReviewData ==
    /\ pc = "augmented"
    /\ app = "flask"
    /\ pros_counts' = Aggregate(NoCounts, augmented).pros_counts
    /\ cons_counts' = Aggregate(NoCounts, augmented).cons_counts
    /\ LET result == app_process_review_data(augmented)
       IN  /\ top_pros' = result.top_pros
           /\ top_cons' = result.top_cons
           /\ average_restaurant_ratings' = result.average_restaurant_ratings
           /\ reviews_over_time_chart_data' = result.reviews_over_time_chart_data
    /\ pc' = "processed"
    /\ UNCHANGED <<raw, augmented, app, fetched, page, session, scraper>>

\* Mesop: process_review_data on the reviews of the page.
DataServiceProcessReviewData ==
    /\ pc = "augmented"
    /\ app = "mesop"
    /\ pros_counts' = Aggregate(NoCounts, augmented).pros_counts
    /\ cons_counts' = Aggregate(NoCounts, augmented).cons_counts
    /\ LET result == data_service_process_review_data(augmented)
       IN  /\ top_pros' = result.top_pros
           /\ top_cons' = result.top_cons
           /\ average_restaurant_ratings' = result.average_restaurant_ratings
           /\ reviews_over_time_chart_data' = result.reviews_over_time_chart_data
    /\ pc' = "processed"
    /\ UNCHANGED <<raw, augmented, app, fetched, page, session, scraper>>

\* Flask: the index route.  The reviews are queried and disambiguated, the
\* map markers and the dropdowns are derived and the dashboard is aggregated.
Index ==
    /\ pc = "load"
    /\ \E args \in IndexRequests :
        \E all_reviews_data_augmented \in
               {augment_reviews_with_ui_name_globally(raw)} \cup (IF raw = <<>> THEN {<<>>} ELSE {}) :
            \E context \in {index(args, all_reviews_data_augmented)} :
              \E acc \in {Aggregate(NoCounts, context.reviews)} :
                /\ request' = args
                /\ raw' = InputAfterAugment(raw)
                /\ augmented' = all_reviews_data_augmented
                /\ error_message' = context.error_message
                /\ city_names' = context.city_names
                /\ restaurants_map_data' = context.restaurants_map_data
                /\ current_reviews_for_dashboard' = context.reviews
                /\ restaurant_names' = context.restaurant_names
                /\ top_pros' = context.top_pros
                /\ top_cons' = context.top_cons
                /\ average_restaurant_ratings' = context.average_restaurant_ratings
                /\ reviews_over_time_chart_data' = context.reviews_over_time_chart_data
                /\ total_displayed_reviews' = context.total_displayed_reviews
                /\ pros_counts' = acc.pros_counts
                /\ cons_counts' = acc.cons_counts
    /\ pc' = "processed"
    /\ app' = "flask"
    /\ UNCHANGED <<geo_filtered_reviews, session, scraper>>

\* Flask: update_dashboard_by_map_bounds.  Bounds that do not convert are
\* answered with an error before the reviews are queried, a dataset without
\* reviews with another; otherwise the reviews inside the bounds are filtered
\* by the dropdowns and aggregated.
UpdateDashboardByMapBounds ==
    /\ pc = "load"
    /\ \E args \in BoundsRequests :
        /\ request' = args
        /\ \/ /\ ~BoundsConvert(args)
              /\ error_message' = MissingBounds
              /\ pc' = "rejected"
              /\ UNCHANGED <<raw, augmented, city_names, restaurants_map_data, outs, counters,
                             current_reviews_for_dashboard, restaurant_names,
                             total_displayed_reviews, geo_filtered_reviews>>
           \/ /\ BoundsConvert(args)
              /\ raw = <<>>
              /\ error_message' = NoReviewData
              /\ pc' = "rejected"
              /\ UNCHANGED <<raw, augmented, city_names, restaurants_map_data, outs, counters,
                             current_reviews_for_dashboard, restaurant_names,
                             total_displayed_reviews, geo_filtered_reviews>>
           \/ /\ BoundsConvert(args)
              /\ raw # <<>>
              /\ \E json \in {update_dashboard_by_map_bounds(
                                    args, augment_reviews_with_ui_name_globally(raw))} :
                  \E acc \in {Aggregate(NoCounts, json.final_filtered_reviews)} :
                     /\ raw' = InputAfterAugment(raw)
                     /\ augmented' = json.all_reviews_data_augmented
                     /\ geo_filtered_reviews' = json.geo_filtered_reviews
                     /\ current_reviews_for_dashboard' = json.final_filtered_reviews
                     /\ restaurant_names' = json.restaurant_names_for_dropdown
                     /\ city_names' = json.city_names_for_dropdown
                     /\ top_pros' = json.top_pros
                     /\ top_cons' = json.top_cons
                     /\ average_restaurant_ratings' = json.average_restaurant_ratings
                     /\ reviews_over_time_chart_data' = json.reviews_over_time_chart_data
                     /\ total_displayed_reviews' = json.total_displayed_reviews
                     /\ pros_counts' = acc.pros_counts
                     /\ cons_counts' = acc.cons_counts
              /\ pc' = "processed"
              /\ UNCHANGED <<restaurants_map_data, error_message>>
    /\ app' = "flask"
    /\ UNCHANGED <<session, scraper>>

\* Mesop: detailed_filter_page.  The first render fetches the reviews, whether
\* the query raises or not, and marks the data as loaded; every render filters
\* the loaded reviews by the two selections and aggregates them.
DetailedFilterPage ==
    /\ pc \in {"load", "rendered", "city_selected", "restaurant_selected"}
    /\ \/ /\ Fetches(data_fully_loaded)
          /\ \E result \in {fetch_processed_data(raw), FetchFailed} :
               \E loaded \in {LoadedState(result)} :
                  /\ all_reviews_data' = loaded.all_reviews_data
                  /\ restaurants_map_data_state' = loaded.restaurants_map_data_state
                  /\ error_message_state' = loaded.error_message_state
                  /\ city_names_options' = loaded.city_names_options
                  /\ restaurant_names_options' = loaded.restaurant_names_options
                  /\ data_fully_loaded' = loaded.data_fully_loaded
          /\ fetch_calls' = fetch_calls + 1
       \/ /\ ~Fetches(data_fully_loaded)
          /\ UNCHANGED <<all_reviews_data, restaurants_map_data_state, error_message_state,
                         city_names_options, restaurant_names_options, data_fully_loaded,
                         fetch_calls>>
    /\ \E displayed \in {ReviewsForDisplay(all_reviews_data', selected_city,
                                           selected_restaurant_name)} :
         \E result \in {data_service_process_review_data(displayed)} :
           \E acc \in {Aggregate(NoCounts, displayed)} :
              /\ current_reviews_for_display' = displayed
              /\ top_pros' = result.top_pros
              /\ top_cons' = result.top_cons
              /\ average_restaurant_ratings' = result.average_restaurant_ratings
              /\ reviews_over_time_chart_data' = result.reviews_over_time_chart_data
              /\ pros_counts' = acc.pros_counts
              /\ cons_counts' = acc.cons_counts
    /\ pc' = "rendered"
    /\ app' = "mesop"
    /\ UNCHANGED <<raw, augmented, fetched, page, selected_city, selected_restaurant_name,
                   scraper>>

\* Mesop: on_select_city_change, for a city the select offers.
OnSelectCityChange ==
    /\ \E value \in OptionValues(city_names_options) :
         \E state \in {on_select_city_change(value, all_reviews_data)} :
            /\ selected_city' = state.selected_city
            /\ restaurant_names_options' = state.restaurant_names_options
            /\ selected_restaurant_name' = state.selected_restaurant_name
    /\ pc' = "city_selected"
    /\ UNCHANGED <<raw, augmented, app, fetched, outs, counters, page, all_reviews_data,
                   city_names_options, restaurants_map_data_state, error_message_state,
                   data_fully_loaded, current_reviews_for_display, fetch_calls, scraper>>

\* Mesop: on_select_restaurant_change, for a restaurant the select offers.
OnSelectRestaurantChange ==
    /\ \E value \in OptionValues(restaurant_names_options) :
         selected_restaurant_name' = value
    /\ pc' = "restaurant_selected"
    /\ UNCHANGED <<raw, augmented, app, fetched, outs, counters, page, selected_city,
                   all_reviews_data, city_names_options, restaurant_names_options,
                   restaurants_map_data_state, error_message_state, data_fully_loaded,
                   current_reviews_for_display, fetch_calls, scraper>>

\* One more place id in the list handed to get_places_details_and_reviews,
\* and what the API will answer for it.
AddPlace ==
    /\ calls = <<>>
    /\ Len(places_id) < MaxPlaces
    /\ \E place_id \in PlaceIds, response \in PlaceResponses :
         /\ places_id' = Append(places_id, place_id)
         /\ responses' = Append(responses, response)
    /\ UNCHANGED <<raw, augmented, pc, app, fetched, outs, counters, page, session,
                   place_index, all_burger_king_reviews, calls>>

\* Scraper: one turn of the loop of get_places_details_and_reviews.
GetPlacesDetailsAndReviews ==
    /\ place_index < Len(places_id)
    /\ \E i \in {place_index + 1} :
         \E details \in {get_place_details_and_reviews(responses[i])} :
            /\ calls' = calls \o <<[call |-> "fetch", place_id |-> places_id[i]]>>
                              \o AfterCall(details, i, Len(places_id))
            /\ all_burger_king_reviews' =
                   Collected(all_burger_king_reviews, places_id[i], details)
            /\ place_index' = i
    /\ UNCHANGED <<raw, augmented, pc, app, fetched, outs, counters, page, session,
                   places_id, responses>>

Process == AppProcessReviewData \/ DataServiceProcessReviewData
Disambiguate == GetAndAugmentAllReviews \/ FetchProcessedData

NextNames == Load(NameReviews) \/ Disambiguate \/ Reorder
SpecNames == Init /\ [][NextNames]_vars

NextRatings == Load(RatingReviews) \/ Disambiguate \/ Process
SpecRatings == Init /\ [][NextRatings]_vars

NextTimes == Load(TimeReviews) \/ Disambiguate \/ Process
SpecTimes == Init /\ [][NextTimes]_vars

NextMap ==
    \/ Load(MapReviews)
    \/ Index
    \/ UpdateDashboardByMapBounds
    \/ FetchProcessedData
    \/ DataServiceProcessReviewData
SpecMap == Init /\ [][NextMap]_vars

NextPage ==
    \/ Load(PageReviews)
    \/ DetailedFilterPage
    \/ OnSelectCityChange
    \/ OnSelectRestaurantChange
SpecPage == Init /\ [][NextPage]_vars

NextScraper == AddPlace \/ GetPlacesDetailsAndReviews
SpecScraper == Init /\ [][NextScraper]_vars

NextTokens == Load(TokenReviews) \/ Disambiguate \/ Process
SpecTokens == Init /\ [][NextTokens]_vars

(***************************************************************************)
(* Name disambiguation: the claims.                                        *)
(***************************************************************************)
Disambiguated == pc \in {"augmented", "reordered"}

BaseName(i) == Get(raw[i], "display_name")
Locality(i) == Get(raw[i], "city")
DisplayKey(i) == Get(augmented[i], "ui_display_name")

\* A row has a base name when its display_name is a non-empty string, and a
\* locality when its city is a non-empty string.
HasBaseName(i) == BaseName(i).tag = "str" /\ BaseName(i).s # ""
HasLocality(i) == Locality(i).tag = "str" /\ Locality(i).s # ""

\* The distinct non-empty localities the batch holds for the base name of row i.
Localities(i) ==
    { Locality(j).s : j \in { k \in 1..Len(raw) : BaseName(k) = BaseName(i) /\ HasLocality(k) } }

Ambiguous(i) == HasBaseName(i) /\ Cardinality(Localities(i)) >= 2

\* C1: in a disambiguated batch, a row whose base name has two or more
\* distinct non-empty localities is keyed "base_name (locality)" when it has
\* a non-empty locality and base_name when its locality is absent or empty.
C1_AmbiguousNamesAreQualified ==
    Disambiguated =>
        /\ Len(augmented) = Len(raw)
        /\ \A i \in 1..Len(raw) :
              Ambiguous(i) =>
                IF HasLocality(i)
                THEN DisplayKey(i) = Str(BaseName(i).s \o " (" \o Locality(i).s \o ")")
                ELSE DisplayKey(i) = BaseName(i)

C1_Witness ==
    /\ Disambiguated
    /\ \E i, j \in 1..Len(raw) :
          /\ Ambiguous(i) /\ HasLocality(i)
          /\ BaseName(j) = BaseName(i) /\ ~HasLocality(j)
          /\ DisplayKey(i) # DisplayKey(j)

\* C2: a row whose base name has at most one distinct non-empty locality in
\* the batch is keyed by its base name, unmodified.
C2_UnambiguousNamesAreKept ==
    Disambiguated =>
        \A i \in 1..Len(raw) :
            (HasBaseName(i) /\ Cardinality(Localities(i)) <= 1) => DisplayKey(i) = BaseName(i)

C2_Witness ==
    /\ Disambiguated
    /\ \E i, j, k \in 1..Len(raw) :
          /\ i # j
          /\ HasBaseName(i) /\ BaseName(j) = BaseName(i)
          /\ Cardinality(Localities(i)) = 1
          /\ HasBaseName(k) /\ Localities(k) = {}
          /\ DisplayKey(i) = BaseName(i) /\ DisplayKey(k) = BaseName(k)

\* Absent and empty both count as no locality.
SameLocality(i, j) ==
    IF HasLocality(i) /\ HasLocality(j) THEN Locality(i) = Locality(j)
    ELSE ~HasLocality(i) /\ ~HasLocality(j)

\* C3: two rows that share an ambiguous base name have the same display key
\* if and only if they have the same locality.
C3_SameKeyIffSameLocality ==
    Disambiguated =>
        \A i, j \in 1..Len(raw) :
            (Ambiguous(i) /\ BaseName(j) = BaseName(i)) =>
                (DisplayKey(i) = DisplayKey(j) <=> SameLocality(i, j))

C3_Witness ==
    /\ Disambiguated
    /\ \E i, j, k \in 1..Len(raw) :
          /\ i # j
          /\ Ambiguous(i) /\ BaseName(j) = BaseName(i) /\ BaseName(k) = BaseName(i)
          /\ SameLocality(i, j) /\ DisplayKey(i) = DisplayKey(j)
          /\ ~SameLocality(i, k) /\ DisplayKey(i) # DisplayKey(k)

\* C4: when the rows of a batch change places and the batch is disambiguated
\* again, every row keeps the display key it had.
C4_OrderIndependent ==
    [][ (Disambiguated /\ pc' = "reordered") =>
            \A k, l \in 1..Len(raw) :
                raw'[k] = raw[l] =>
                    Get(augmented'[k], "ui_display_name") = Get(augmented[l], "ui_display_name")
      ]_vars

\* Rows that changed places, one qualified by the locality that arrived with
\* the other.
C4_Witness ==
    /\ pc = "reordered"
    /\ \E i, j \in 1..Len(raw) :
          /\ i < j
          /\ Ambiguous(i) /\ BaseName(j) = BaseName(i)
          /\ HasLocality(i) /\ HasLocality(j) /\ Locality(i) # Locality(j)
          /\ DisplayKey(i) # BaseName(i)

(***************************************************************************)
(* process_review_data: the claims.                                        *)
(***************************************************************************)
Processed == pc = "processed"

Rating(i) == Get(augmented[i], "review_rating")
Timestamp(i) == Get(augmented[i], "review_datetime")

\* The rating of row i is non-null and converts to a number.
ValidRating(i) == Rating(i) # None /\ Float(Rating(i)).ok

RECURSIVE SumRatings(_)
SumRatings(rows) ==
    IF rows = {} THEN 0
    ELSE LET i == CHOOSE x \in rows : TRUE
         IN  Float(Rating(i)).v + SumRatings(rows \ {i})

\* The rows of a display key whose rating is valid.
ValidRows(key) == { i \in 1..Len(augmented) : DisplayKey(i) = key /\ ValidRating(i) }

\* C5: a display key is in average_restaurant_ratings only if a row of that
\* key has a rating that is non-null and converts to a number.
C5_NoKeyWithoutValidRating ==
    Processed =>
        \A e \in 1..Len(average_restaurant_ratings) :
            ValidRows(average_restaurant_ratings[e].k) # {}

\* C6: the average of every display key that has a valid rating is the mean,
\* rounded to two decimals, of the valid ratings of the rows of that key,
\* whatever rows with other ratings stand between them.
C6_AverageOfValidRatings ==
    Processed =>
        /\ \A d, e \in 1..Len(average_restaurant_ratings) :
              average_restaurant_ratings[d].k = average_restaurant_ratings[e].k => d = e
        /\ \A i \in 1..Len(augmented) :
              (Truthy(DisplayKey(i)) /\ ValidRating(i)) =>
                  /\ DictHas(average_restaurant_ratings, DisplayKey(i))
                  /\ DictGet(average_restaurant_ratings, DisplayKey(i))
                       = Round2(SumRatings(ValidRows(DisplayKey(i))),
                                Cardinality(ValidRows(DisplayKey(i))))

\* A key with a rating that does not convert between two that do.
C6_Witness ==
    /\ Processed
    /\ \E i, j, k \in 1..Len(augmented) :
          /\ i < j /\ j < k
          /\ Truthy(DisplayKey(i))
          /\ DisplayKey(j) = DisplayKey(i) /\ DisplayKey(k) = DisplayKey(i)
          /\ ValidRating(i) /\ ValidRating(k)
          /\ Rating(j) # None /\ ~ValidRating(j)
          /\ DictGet(average_restaurant_ratings, DisplayKey(i))
               = Round2(Float(Rating(i)).v + Float(Rating(k)).v, 2)

\* The timestamp of row i is a datetime or a string that parses to one.
ParsedTimestamp(i) ==
    IF Timestamp(i).tag = "datetime" THEN Returned(Timestamp(i))
    ELSE IF Timestamp(i).tag = "str" /\ Timestamp(i).s # "" THEN FromIsoFormat(Timestamp(i).s)
    ELSE Raised

InMonth(i, label) == ParsedTimestamp(i).ok /\ MonthYear(ParsedTimestamp(i).v) = label

EmptySeries == [labels |-> <<>>, review_counts |-> <<>>, average_ratings |-> <<>>]

\* C7: when no row has both a timestamp that parses and a valid rating, the
\* time series is the structure of three empty sequences.
C7_EmptySeriesWhenNoBucket ==
    (Processed /\ ~\E i \in 1..Len(augmented) : ParsedTimestamp(i).ok /\ ValidRating(i))
        => reviews_over_time_chart_data = EmptySeries

\* The labels of the time series; an empty dict holds none.
Labels ==
    IF reviews_over_time_chart_data = EmptyDict THEN <<>>
    ELSE reviews_over_time_chart_data.labels

Months == { Labels[n] : n \in 1..Len(Labels) }
            \cup { MonthYear(ParsedTimestamp(i).v) :
                     i \in { j \in 1..Len(augmented) : ParsedTimestamp(j).ok } }

\* The rows of a month whose rating is valid.
ValidRowsOfMonth(label) == { i \in 1..Len(augmented) : InMonth(i, label) /\ ValidRating(i) }

\* C8: a month is a label exactly when a row of that month has a valid rating,
\* and its review count is the number of such rows.
C8_BucketsCountValidRows ==
    Processed =>
        \A label \in Months :
            /\ (\E n \in 1..Len(Labels) : Labels[n] = label) <=> ValidRowsOfMonth(label) # {}
            /\ \A n \in 1..Len(Labels) :
                  Labels[n] = label =>
                      reviews_over_time_chart_data.review_counts[n]
                          = Cardinality(ValidRowsOfMonth(label))

\* The rows that the loop puts into the bucket of a month: the timestamp
\* parses and the rating is not None.
BucketRows(label) == { i \in 1..Len(augmented) : InMonth(i, label) /\ Rating(i) # None }

\* C9: the labels of a time series are strictly increasing, the three
\* sequences have one length, and position n of each describes the month of
\* label n.
C9_SeriesSortedAndAligned ==
    (Processed /\ reviews_over_time_chart_data # EmptyDict) =>
        LET series == reviews_over_time_chart_data
        IN  /\ DOMAIN series = {"labels", "review_counts", "average_ratings"}
            /\ Len(series.review_counts) = Len(series.labels)
            /\ Len(series.average_ratings) = Len(series.labels)
            /\ \A n \in 1..(Len(series.labels) - 1) :
                  LabelBefore(series.labels[n], series.labels[n + 1])
            /\ \A n \in 1..Len(series.labels) :
                  LET rows == BucketRows(series.labels[n])
                  IN  /\ rows # {}
                      /\ series.review_counts[n] = Cardinality(rows)
                      /\ series.average_ratings[n]
                           = Round2(SumRatings({ i \in rows : ValidRating(i) }),
                                    Cardinality(rows))

\* Three months, the batch holding them in another order than the series.
C9_Witness ==
    /\ Processed
    /\ Len(Labels) = 3
    /\ \E i, j \in 1..Len(augmented) :
          /\ i < j
          /\ ParsedTimestamp(i).ok /\ ParsedTimestamp(j).ok
          /\ LabelBefore(MonthYear(ParsedTimestamp(j).v), MonthYear(ParsedTimestamp(i).v))
    /\ reviews_over_time_chart_data.review_counts = <<1, 1, 1>>

TopTokensShape(top) ==
    /\ Len(top) <= 10
    /\ \A n \in 1..Len(top) : top[n].v >= 1 /\ top[n].k # "" /\ top[n].k # "empty"
    /\ \A n \in 1..(Len(top) - 1) : top[n].v >= top[n + 1].v

\* C10: the top pros and the top cons have at most 10 entries, every count is
\* at least 1, no token is "" or "empty", and the counts do not increase.
C10_TopTokensShape ==
    Processed => TopTokensShape(top_pros) /\ TopTokensShape(top_cons)

\* The tokens of a Counter that are neither "" nor the placeholder "empty".
EligibleItems(tally) == { e \in 1..Len(tally) : tally[e].k # "" /\ tally[e].k # "empty" }

Min(a, b) == IF a < b THEN a ELSE b

\* The top list holds min(10, n) of the n eligible tokens with their counts,
\* and no eligible token that it leaves out has a larger count than one it holds.
TopOfEligible(top, tally) ==
    /\ Len(top) = Min(10, Cardinality(EligibleItems(tally)))
    /\ \A m, n \in 1..Len(top) : top[m].k = top[n].k => m = n
    /\ \A n \in 1..Len(top) : \E e \in EligibleItems(tally) : tally[e] = top[n]
    /\ \A e \in EligibleItems(tally) :
          (\A n \in 1..Len(top) : top[n].k # tally[e].k) =>
              \A n \in 1..Len(top) : top[n].v >= tally[e].v

\* C11: the top pros and the top cons are the min(10, n) highest-count tokens
\* among the n tallied tokens other than "" and "empty"; with 10 or more such
\* tokens the list has 10 entries.
C11_TopTenOfEligible ==
    Processed => TopOfEligible(top_pros, pros_counts) /\ TopOfEligible(top_cons, cons_counts)

\* The pros (field "review_pros") or cons of row i of the aggregated batch.
Field(i, field) == Get(augmented[i], field)

\* The normal form of a token: trimmed and lower-cased.
Normal(s) == Lower(Strip(s))

\* The positions of the list that row i holds in a field.
ListPositions(i, field) ==
    IF Field(i, field).tag = "list" THEN 1..Len(Field(i, field).items) ELSE {}

\* The positions of that list that hold a string.
StringPositions(i, field) ==
    { p \in ListPositions(i, field) : Field(i, field).items[p].tag = "str" }

\* The occurrences of token t: a string-valued field, or an element of a list,
\* whose normal form is t.
Occurrences(field, t) ==
    { <<i, 0>> : i \in { j \in 1..Len(augmented) :
                           Field(j, field).tag = "str" /\ Normal(Field(j, field).s) = t } }
    \cup
    UNION { { <<i, p>> : p \in { q \in StringPositions(i, field) :
                                   Normal(Field(i, field).items[q].s) = t } } :
              i \in 1..Len(augmented) }

\* The normal forms of the strings that the batch holds in a field.
NormalForms(field) ==
    { Normal(Field(i, field).s) : i \in { j \in 1..Len(augmented) : Field(j, field).tag = "str" } }
    \cup
    UNION { { Normal(Field(i, field).items[p].s) : p \in StringPositions(i, field) } :
              i \in 1..Len(augmented) }

CountOf(tally, t) == IF DictHas(tally, t) THEN DictGet(tally, t) ELSE 0

\* A Counter holds every non-empty normal form with the number of its
\* occurrences, and holds nothing else.
TalliesOccurrences(tally, field) ==
    /\ \A t \in NormalForms(field) \ {""} :
          CountOf(tally, t) = Cardinality(Occurrences(field, t))
    /\ \A e \in 1..Len(tally) : tally[e].k # "" /\ tally[e].k \in NormalForms(field)
    /\ \A d, e \in 1..Len(tally) : tally[d].k = tally[e].k => d = e

\* C12: the count of a token is the number of string-valued fields and list
\* elements whose trimmed, lower-cased value is the token; None and empty
\* elements of a list are passed over one by one, and a value that is empty
\* once trimmed is no token.
C12_TokensTallied ==
    Processed => /\ TalliesOccurrences(pros_counts, "review_pros")
                 /\ TalliesOccurrences(cons_counts, "review_cons")

(***************************************************************************)
(* The map markers: the claims.                                            *)
(***************************************************************************)
\* The route that ran.
IndexRan == app = "flask" /\ pc = "processed" /\ request \in IndexRequests
BoundsRan == app = "flask" /\ pc = "processed" /\ request \in BoundsRequests
FetchRan == app = "mesop" /\ pc \in {"augmented", "processed"}

\* The markers of the batch are built.
MarkersBuilt == IndexRan \/ FetchRan

Latitude(i) == Get(augmented[i], "latitude")
Longitude(i) == Get(augmented[i], "longitude")

\* Row i has a base name and a latitude and a longitude that both parse.
ParsedPair(i) ==
    /\ Truthy(Get(augmented[i], "display_name"))
    /\ Latitude(i) # None /\ Longitude(i) # None
    /\ Float(Latitude(i)).ok /\ Float(Longitude(i)).ok

\* The rows of a base name whose pair parses.
ParsedRows(name) ==
    { i \in 1..Len(augmented) : Get(augmented[i], "display_name") = name /\ ParsedPair(i) }

Earliest(rows) == CHOOSE i \in rows : \A j \in rows : i <= j

\* C13: the coordinate of a marker is the pair of the earliest row of its
\* base name whose latitude and longitude both parse.
C13_MarkerIsFirstValidPair ==
    MarkersBuilt =>
        \A m \in 1..Len(restaurants_map_data) :
            LET marker == restaurants_map_data[m]
                rows == ParsedRows(marker.name)
            IN  /\ rows # {}
                /\ marker.lat = Float(Latitude(Earliest(rows))).v
                /\ marker.lng = Float(Longitude(Earliest(rows))).v

MarkerNames == { restaurants_map_data[m].name : m \in 1..Len(restaurants_map_data) }

OneMarkerPerName ==
    \A m, n \in 1..Len(restaurants_map_data) :
        restaurants_map_data[m].name = restaurants_map_data[n].name => m = n

MappablePair(i) ==
    /\ ParsedPair(i)
    /\ app = "flask" => InRange(Float(Latitude(i)).v, Float(Longitude(i)).v)

ValidRowsOfName(name) ==
    { i \in 1..Len(augmented) : Get(augmented[i], "display_name") = name /\ ValidRating(i) }

\* C15: review_count of a marker is the number of the valid ratings of all
\* the rows of its base name, in every locality, and avg_rating is their
\* mean, rounded to two decimals.
C15_MarkerAggregatesPerBaseName ==
    MarkersBuilt =>
        \A m \in 1..Len(restaurants_map_data) :
            LET marker == restaurants_map_data[m]
                rows == ValidRowsOfName(marker.name)
            IN  /\ marker.review_count = Cardinality(rows)
                /\ rows # {} => marker.avg_rating = Round2(SumRatings(rows), Cardinality(rows))

\* A marker whose ratings come from two localities, the rows of which have
\* two display keys.
C15_Witness ==
    /\ MarkersBuilt
    /\ \E m \in 1..Len(restaurants_map_data) :
          \E i, j \in ValidRowsOfName(restaurants_map_data[m].name) :
              /\ Get(augmented[i], "city") # Get(augmented[j], "city")
              /\ DisplayKey(i) # DisplayKey(j)
              /\ DisplayKey(i) # restaurants_map_data[m].name
              /\ restaurants_map_data[m].review_count = 2
              /\ restaurants_map_data[m].avg_rating
                   = Round2(Float(Rating(i)).v + Float(Rating(j)).v, 2)

(***************************************************************************)
(* The bounds of the map: the claims.                                      *)
(***************************************************************************)
South == Float(request.sw_lat).v
West == Float(request.sw_lng).v
North == Float(request.ne_lat).v
East == Float(request.ne_lng).v

\* The latitude and the longitude of a record both parse.
Parses(record) ==
    /\ Get(record, "latitude") # None /\ Get(record, "longitude") # None
    /\ Float(Get(record, "latitude")).ok /\ Float(Get(record, "longitude")).ok

\* A record is inside the box of the request, its edges included.
InsideBox(record) ==
    /\ Parses(record)
    /\ South <= Float(Get(record, "latitude")).v /\ Float(Get(record, "latitude")).v <= North
    /\ West <= Float(Get(record, "longitude")).v /\ Float(Get(record, "longitude")).v <= East

\* C16: the geo-filtered set is the sub-sequence, in the order of the batch,
\* of the records whose latitude and longitude both parse and lie in the box,
\* its edges included; a record whose pair is missing or does not parse is
\* dropped and the filtering goes on.
C16_BoundingBoxFilter ==
    BoundsRan => geo_filtered_reviews = SelectSeq(augmented, InsideBox)

\* A record on the edge of the box is kept, one outside and one whose
\* latitude does not parse are dropped.
C16_Witness ==
    /\ BoundsRan
    /\ \E i, j, k \in 1..Len(augmented) :
          /\ InsideBox(augmented[i]) /\ Float(Latitude(i)).v = North
          /\ Parses(augmented[j]) /\ ~InsideBox(augmented[j])
          /\ ~Parses(augmented[k]) /\ Latitude(k) # None
    /\ Len(geo_filtered_reviews) = 1

UiName(record) == Get(record, "ui_display_name")

\* C17 as stated: the display keys of the geo-filtered set are those that
\* the disambiguator gives when it runs on the geo-filtered set.
C17_KeysOfFilteredSet ==
    BoundsRan =>
        LET again == augment_reviews_with_ui_name_globally(geo_filtered_reviews)
        IN  \A n \in 1..Len(geo_filtered_reviews) :
                UiName(geo_filtered_reviews[n]) = UiName(again[n])

\* The display keys that the disambiguator gives to the rows of the dataset.
KeysOfDataset ==
    LET all == augment_reviews_with_ui_name_globally(raw)
    IN  { UiName(all[i]) : i \in 1..Len(all) }

\* C17: the display keys of the geo-filtered set, of the restaurant list and
\* of the aggregates are those that the disambiguator gave to the records
\* when it ran on the whole dataset, before the filter; the filter keeps them.
C17_KeysOfWholeDataset ==
    BoundsRan =>
        /\ augmented = augment_reviews_with_ui_name_globally(raw)
        /\ \A n \in 1..Len(geo_filtered_reviews) :
              \E i \in 1..Len(augmented) :
                  /\ geo_filtered_reviews[n] = augmented[i]
                  /\ InsideBox(augmented[i])
        /\ \A n \in 1..Len(restaurant_names) : Str(restaurant_names[n]) \in KeysOfDataset
        /\ \A e \in 1..Len(average_restaurant_ratings) :
              average_restaurant_ratings[e].k \in KeysOfDataset

\* A name with two localities in the dataset and one inside the box: its
\* record inside the box is listed and rated under the qualified key.
C17_Witness ==
    /\ BoundsRan
    /\ Len(geo_filtered_reviews) = 1
    /\ UiName(geo_filtered_reviews[1]) # Get(geo_filtered_reviews[1], "display_name")
    /\ UiName(augment_reviews_with_ui_name_globally(geo_filtered_reviews)[1])
         = Get(geo_filtered_reviews[1], "display_name")
    /\ restaurant_names = <<UiName(geo_filtered_reviews[1]).s>>
    /\ DictHas(average_restaurant_ratings, UiName(geo_filtered_reviews[1]))

(***************************************************************************)
(* The records and the routes: the claims.                                 *)
(***************************************************************************)
\* A record of the disambiguated batch is the row of the query with one more
\* key, ui_display_name.
RowWithKey(record, row) ==
    /\ DOMAIN record = DOMAIN row \cup {"ui_display_name"}
    /\ \A f \in DOMAIN row : record[f] = row[f]

C19_EmptyBatchEmptyOutputs ==
    (raw = <<>> /\ pc # "load") =>
        /\ augmented = <<>>
        /\ restaurants_map_data = <<>>
        /\ pc \in {"augmented", "processed", "rejected"}
        /\ pc = "processed" =>
              top_pros = <<>> /\ top_cons = <<>> /\ average_restaurant_ratings = <<>>

\* The query of the data service failed and the page was aggregated.
C19_Witness ==
    /\ raw = <<>>
    /\ pc = "processed"
    /\ app = "mesop"
    /\ error_message = FetchError
    /\ top_pros = <<>> /\ average_restaurant_ratings = <<>>

\* The records of the dataset that a selection asks for.
Selected(record) ==
    /\ Truthy(request.selected_city) => Get(record, "city") = request.selected_city
    /\ Truthy(request.selected_restaurant_name) =>
          UiName(record) = request.selected_restaurant_name

\* C20: the index route displays and aggregates the records of the selected
\* city and of the selected restaurant; total_displayed_reviews is their
\* number, the average ratings hold their display keys only and, with a city
\* selected, the restaurant list holds display keys of that city only.
C20_IndexAppliesSelection ==
    IndexRan =>
        /\ current_reviews_for_dashboard = SelectSeq(augmented, Selected)
        /\ total_displayed_reviews = Len(SelectSeq(augmented, Selected))
        /\ \A e \in 1..Len(average_restaurant_ratings) :
              \E i \in 1..Len(augmented) :
                  Selected(augmented[i]) /\ UiName(augmented[i]) = average_restaurant_ratings[e].k
        /\ Truthy(request.selected_city) =>
              \A n \in 1..Len(restaurant_names) :
                  \E i \in 1..Len(augmented) :
                      /\ Get(augmented[i], "city") = request.selected_city
                      /\ UiName(augmented[i]) = Str(restaurant_names[n])

(***************************************************************************)
(* The detailed page of the Mesop dashboard: the claims.                   *)
(***************************************************************************)
Rendered == pc = "rendered"

\* The loaded reviews that the two selections of the page let through.
SelectedRows ==
    { i \in 1..Len(all_reviews_data) :
        /\ selected_city # AllCities => Get(all_reviews_data[i], "city") = Str(selected_city)
        /\ selected_restaurant_name # AllRestaurants =>
              Get(all_reviews_data[i], "ui_display_name") = Str(selected_restaurant_name) }

\* The k-th row of a set of rows.
KthRow(rows, k) == CHOOSE i \in rows : Cardinality({ j \in rows : j <= i }) = k

\* The display keys of the selected reviews that come with a rating.
RatedKeys ==
    { Get(all_reviews_data[i], "ui_display_name") :
        i \in { j \in SelectedRows :
                  /\ Truthy(Get(all_reviews_data[j], "ui_display_name"))
                  /\ Get(all_reviews_data[j], "review_rating") # None } }

\* C21: on the rendered detailed page the reviews displayed and aggregated are
\* exactly the loaded reviews of the selected city (of every city for 'All
\* Cities') with the selected restaurant as display key (any key for 'All
\* Restaurants'), in their order; their number is the number of such
\* reviews, and the keys of the average ratings are the display keys that
\* occur among them in a review with a rating.
C21_PageShowsSelectedReviews ==
    Rendered =>
        /\ Len(current_reviews_for_display) = Cardinality(SelectedRows)
        /\ \A k \in 1..Len(current_reviews_for_display) :
              current_reviews_for_display[k] = all_reviews_data[KthRow(SelectedRows, k)]
        /\ { average_restaurant_ratings[i].k : i \in 1..Len(average_restaurant_ratings) }
              = RatedKeys

\* A page with a city and a restaurant selected that shows some of the
\* reviews of the city and not all of them.
C21_Witness ==
    /\ Rendered
    /\ selected_city = "X"
    /\ selected_restaurant_name = "A (X)"
    /\ current_reviews_for_display # <<>>
    /\ Len(current_reviews_for_display) < Len(OfCity(all_reviews_data, Str("X")))
    /\ Len(OfCity(all_reviews_data, Str("X"))) < Len(all_reviews_data)

(***************************************************************************)
(* The scraper: the claims.                                                *)
(***************************************************************************)
\* The places the loop has been through whose details were fetched and hold
\* at least one review.
Succeeded(i) ==
    /\ responses[i].raises = "none"
    /\ responses[i].json.status = Str("OK")
    /\ responses[i].json.result # None
    /\ responses[i].json.result.reviews # None
    /\ responses[i].json.result.reviews.items # <<>>

SucceededPlaces == { i \in 1..place_index : Succeeded(i) }

\* The places the API was called for, in the order of the calls.
FetchedPlaces ==
    LET fetches == SelectSeq(calls, LAMBDA c : c.call = "fetch")
    IN  [k \in 1..Len(fetches) |-> fetches[k].place_id]

\* C22: the loop calls the API for every place id, in the order of the list,
\* whatever the calls before it did, and the entries it has collected are, in
\* the order of the list, one for each place whose details were fetched with
\* at least one review, with the reviews of that place.
C22_FailedPlacesAreSkipped ==
    /\ FetchedPlaces = SubSeq(places_id, 1, place_index)
    /\ Len(all_burger_king_reviews) = Cardinality(SucceededPlaces)
    /\ \A k \in 1..Len(all_burger_king_reviews) :
          LET i == KthRow(SucceededPlaces, k)
          IN  /\ all_burger_king_reviews[k].place_id = places_id[i]
              /\ all_burger_king_reviews[k].reviews = responses[i].json.result.reviews

\* The loop is through a list in which a call raised, another answered with
\* another status and a later place has reviews.
C22_Witness ==
    /\ place_index = Len(places_id)
    /\ \E i, j, k \in 1..Len(places_id) :
          /\ i < k
          /\ j < k
          /\ responses[i].raises = "none"
          /\ responses[i].json.status = None
          /\ responses[j].json.status = Str("NOT_FOUND")
          /\ Succeeded(k)
    /\ Len(all_burger_king_reviews) = 1

\* C24: between the calls of the API for two consecutive places the loop
\* sleeps: no call is followed by another call at once.
C24_SleepBetweenCalls ==
    \A k \in 1..(Len(calls) - 1) :
        calls[k].call = "fetch" => calls[k + 1].call = "sleep"

(***************************************************************************)
(* Top tokens: the order of ties.                                          *)
(***************************************************************************)
\* The place a token took in the Counter when it was first tallied.
FirstTallied(tally, token) == CHOOSE i \in 1..Len(tally) : tally[i].k = token

\* Entries of the same count stand in the order in which their tokens were
\* first tallied.
TiesInTallyOrder(top, tally) ==
    \A k, l \in 1..Len(top) :
        (k < l /\ top[k].v = top[l].v) =>
            FirstTallied(tally, top[k].k) < FirstTallied(tally, top[l].k)

\* C23: in the top pros and in the top cons of every batch, tokens of equal
\* count are listed in the order in which the scan of the batch first tallied
\* them, whatever their text.
C23_TiesKeepTallyOrder ==
    Processed =>
        /\ TiesInTallyOrder(top_pros, pros_counts)
        /\ TiesInTallyOrder(top_cons, cons_counts)

\* Two tokens of the same count are listed against the order of their text.
C23_Witness ==
    /\ Processed
    /\ \E k, l \in 1..Len(top_pros) :
          /\ k < l
          /\ top_pros[k].v = top_pros[l].v
          /\ top_pros[k].k = "t07"
          /\ top_pros[l].k = "t01"

(***************************************************************************)
(* Name disambiguation: keys across base names, and the frame.             *)
(***************************************************************************)
\* C25: in a disambiguated batch two rows with different base names never
\* have the same display key.
C25_KeysDistinctAcrossBaseNames ==
    Disambiguated =>
        \A i, j \in 1..Len(raw) :
            (HasBaseName(i) /\ HasBaseName(j) /\ BaseName(i) # BaseName(j)) =>
                DisplayKey(i) # DisplayKey(j)

(***************************************************************************)
(* The two process_review_data.                                            *)
(***************************************************************************)
\* What the process_review_data of the other dashboard returns for the batch.
OtherAggregator ==
    IF app = "flask" THEN data_service_process_review_data(augmented)
    ELSE app_process_review_data(augmented)

\* C26: the top pros, the top cons, the average ratings and the time series
\* that one dashboard's process_review_data returned for a batch are those
\* the other dashboard's process_review_data returns for it.
C26_AggregatorsAgree ==
    Processed =>
        /\ top_pros = OtherAggregator.top_pros
        /\ top_cons = OtherAggregator.top_cons
        /\ average_restaurant_ratings = OtherAggregator.average_restaurant_ratings
        /\ reviews_over_time_chart_data = OtherAggregator.reviews_over_time_chart_data

\* C27: the disambiguated batch has the length and the order of the rows of
\* the query: record i is row i with the same value for every key of the row
\* and one more key, ui_display_name.
C27_DisambiguatorPreservesBatch ==
    Disambiguated =>
        /\ Len(augmented) = Len(raw)
        /\ \A i \in 1..Len(augmented) :
              /\ DOMAIN augmented[i] = DOMAIN raw[i] \cup {"ui_display_name"}
              /\ "ui_display_name" \notin DOMAIN raw[i]
              /\ \A f \in DOMAIN raw[i] : augmented[i][f] = raw[i][f]

\* A batch of different rows, one of which received a qualified name and
\* another its own name.
C27_Witness ==
    /\ Disambiguated
    /\ Len(augmented) = MaxReviews
    /\ \E i, j \in 1..Len(augmented) :
          /\ raw[i] # raw[j]
          /\ DisplayKey(i) # BaseName(i)
          /\ DisplayKey(j) = BaseName(j)
          /\ HasBaseName(j)

(***************************************************************************)
(* The session of the detailed page: the claims.                           *)
(***************************************************************************)
\* C28: in a session of the detailed page a step calls fetch_processed_data
\* only when data_fully_loaded is false, and then once; a render leaves
\* data_fully_loaded true whether the fetch failed or not, and once it is true
\* it stays true and no step changes the loaded reviews, the markers or the
\* error message: a failed fetch is not tried again.
C28_FetchesOncePerSession ==
    [][ /\ fetch_calls' # fetch_calls =>
              ~data_fully_loaded /\ fetch_calls' = fetch_calls + 1
        /\ pc' = "rendered" => data_fully_loaded'
        /\ data_fully_loaded =>
              /\ data_fully_loaded'
              /\ fetch_calls' = fetch_calls
              /\ fetch_calls = 1
              /\ all_reviews_data' = all_reviews_data
              /\ restaurants_map_data_state' = restaurants_map_data_state
              /\ error_message_state' = error_message_state
              /\ city_names_options' = city_names_options
      ]_vars

\* A session whose fetch failed although the table holds rows, after a
\* selection of the city: the error and the empty data are still there and
\* fetch_processed_data was called once.
C28_Witness ==
    /\ pc = "city_selected"
    /\ data_fully_loaded
    /\ raw # <<>>
    /\ error_message_state = FetchError
    /\ all_reviews_data = <<>>
    /\ fetch_calls = 1
    /\ selected_city = AllCities
    /\ restaurant_names_options = SelectOptions(<<AllRestaurants>>)

\* The display keys of the loaded reviews of a city, of every loaded review
\* for 'All Cities'.
KeysOfCity(loaded, city) ==
    { Get(loaded[i], "ui_display_name").s :
        i \in { j \in 1..Len(loaded) :
                  /\ city # AllCities => Get(loaded[j], "city") = Str(city)
                  /\ Truthy(Get(loaded[j], "ui_display_name")) } }

\* The place of a string in the order of the strings.
Rank(s) == CHOOSE i \in 1..Len(StrOrder) : StrOrder[i] = s

\* The options are 'All Restaurants' and then the keys, each once, sorted.
OffersAllAndKeys(options, keys) ==
    /\ Len(options) = 1 + Cardinality(keys)
    /\ options[1] = [label |-> AllRestaurants, value |-> AllRestaurants]
    /\ \A k \in 2..Len(options) :
          /\ options[k].value \in keys
          /\ options[k].label = options[k].value
          /\ k > 2 => Rank(options[k - 1].value) < Rank(options[k].value)

\* C29: once the page has loaded its data, the restaurant that is selected is
\* one of the restaurants the select offers, whatever cities and restaurants
\* have been selected; and a selection of a city leaves 'All Restaurants'
\* selected and the select offering 'All Restaurants' and the sorted distinct
\* display keys of the loaded reviews of that city (of every loaded review
\* for 'All Cities').
C29_SelectionConsistent ==
    [][ /\ data_fully_loaded' =>
              selected_restaurant_name' \in OptionValues(restaurant_names_options')
        /\ pc' = "city_selected" =>
              /\ selected_restaurant_name' = AllRestaurants
              /\ OffersAllAndKeys(restaurant_names_options',
                                  KeysOfCity(all_reviews_data', selected_city'))
      ]_vars

\* A city was selected whose reviews hold some of the display keys of the
\* loaded reviews, not all of them.
C29_Witness ==
    /\ pc = "city_selected"
    /\ selected_city = "X"
    /\ OptionValues(restaurant_names_options) = {AllRestaurants, "A (X)", "B"}
    /\ KeysOfCity(all_reviews_data, AllCities) = {"A (X)", "A (Y)", "B"}

(***************************************************************************)
(* The map: a marker without ratings.                                      *)
(***************************************************************************)
\* C30: a base name with a row whose pair the dashboard puts on its map and
\* without any row whose rating is non-null and converts has a marker all
\* the same, with avg_rating 0 and review_count 0.
C30_MarkerWithoutRatings ==
    MarkersBuilt =>
        \A i \in 1..Len(augmented) :
            (MappablePair(i) /\ ValidRowsOfName(Get(augmented[i], "display_name")) = {}) =>
                \E m \in 1..Len(restaurants_map_data) :
                    /\ restaurants_map_data[m].name = Get(augmented[i], "display_name")
                    /\ restaurants_map_data[m].avg_rating = 0
                    /\ restaurants_map_data[m].review_count = 0

\* A name on the map whose rows have no rating or one that does not convert,
\* beside a name on the map with a rating.
C30_Witness ==
    /\ MarkersBuilt
    /\ Len(restaurants_map_data) = 2
    /\ \E i, j, k \in 1..Len(augmented) :
          /\ MappablePair(i)
          /\ Get(augmented[j], "display_name") = Get(augmented[i], "display_name")
          /\ Rating(i) = None
          /\ Rating(j) # None /\ ~ValidRating(j)
          /\ ValidRowsOfName(Get(augmented[i], "display_name")) = {}
          /\ MappablePair(k) /\ ValidRating(k)

====
